---- MODULE Spec2Model ----
(***************************************************************************)
(* pear-fe-docs: a VitePress documentation site.  The repository is the    *)
(* site configuration (locales, navigation bars, sidebar mappings) and the *)
(* Markdown documents.  The model holds that data as written in the source *)
(* and the navigation a visitor of the generated site can perform with it: *)
(* opening a locale home, following a navigation-bar entry, a sidebar leaf *)
(* or the home page's hero action, and opening a document by its address.  *)
(* Two versions of the configuration are in the source: the current one    *)
(* (config.mts with sidebar/enSidebar, sidebar/zhSidebar) and the earlier  *)
(* one (the other config file with sidebar.ts).                            *)
(***************************************************************************)
EXTENDS Naturals, Sequences, FiniteSets, TLC

VARIABLES
    site,       \* the version of the configuration the site is built from
    route,      \* the address the visitor is at
    via,        \* what brought the visitor there
    section     \* the route prefix of the sidebar a followed leaf was in, else ""

vars == <<site, route, via, section>>

-----------------------------------------------------------------------------
(* Strings: route prefixes and directories.                                *)

StartsWith(s, p) == Len(p) <= Len(s) /\ SubSeq(s, 1, Len(p)) = p

EndsWith(s, p) == Len(p) <= Len(s) /\ SubSeq(s, Len(s) - Len(p) + 1, Len(s)) = p

\* The positions of s holding a "/".
SlashesOf(s) == {i \in 1..Len(s) : SubSeq(s, i, i) = "/"}

\* Every directory on the way to a path: its prefixes ending in "/".
AncestorDirs(p) == {SubSeq(p, 1, i) : i \in SlashesOf(p)}

-----------------------------------------------------------------------------
(* Sidebar mappings: route prefix -> tree of entries.  A label or a title  *)
(* written in Chinese in the source is given here by its English gloss     *)
(* after "zh: ": the strings of the model are ASCII.                       *)

enStandard ==
    << [text |-> "Standard", items |-> <<
         [text |-> "Introduction", link |-> "/posts/standard/index.md"],
         [text |-> "React", collapsed |-> FALSE, items |-> <<
            [text |-> "React Coding Standards", link |-> "/posts/standard/react/react-coding-standards.md"],
            [text |-> "Avoid Arrow Functions in JSX", link |-> "/posts/standard/react/avoid-arrow-function-in-jsx.md"],
            [text |-> "useMemo and useCreation Guide", link |-> "/posts/standard/react/usememo-usecreation-guide.md"],
            [text |-> "React Architecture 30 Principles", link |-> "/posts/standard/react/react-architecture-principles.md"] >>],
         [text |-> "Best Practices", collapsed |-> FALSE, items |-> <<
            [text |-> "Git Standard", link |-> "/posts/standard/best-practices/git-standard.md"],
            [text |-> "Function Declaration Standard", link |-> "/posts/standard/best-practices/function-declaration.md"],
            [text |-> "SVG File Optimization Standard", link |-> "/posts/standard/best-practices/svg-optimization.md"],
            [text |-> "Prohibition of Enum Standard", link |-> "/posts/standard/best-practices/no-enum.md"],
            [text |-> "Module Export Standard", link |-> "/posts/standard/best-practices/module-export.md"] >>],
         [text |-> "GitHub", collapsed |-> FALSE, items |-> <<
            [text |-> "PR Description Guidelines", link |-> "/posts/standard/github/pr-description.md"] >>] >>] >>

\* The incidents section with the introduction's link pasted onto the second entry.
enIncidentsDuplicate ==
    << [text |-> "Incident Postmortem", items |-> <<
         [text |-> "Introduction", link |-> "/posts/incidents/index.md"],
         [text |-> "PayPal SDK Crash", link |-> "/posts/incidents/index.md"] >>] >>

enIncidents ==
    << [text |-> "Incident Postmortem", items |-> <<
         [text |-> "Introduction", link |-> "/posts/incidents/index.md"],
         [text |-> "PayPal SDK Crash", link |-> "/posts/incidents/paypal-sdk-crash-2026-01-15.md"] >>] >>

\* The hooks section linking to a page name that was never written.
enHooksDangling ==
    << [text |-> "Hooks", items |-> <<
         [text |-> "Introduction", link |-> "/posts/hooks/introduction.md"] >>] >>

enHooks ==
    << [text |-> "Hooks", items |-> <<
         [text |-> "Introduction", link |-> "/posts/hooks/index.md"] >>] >>

\* The utils section with the link of the hooks section left in after a copy.
enUtilsForeignLink ==
    << [text |-> "Utils", items |-> <<
         [text |-> "Introduction", link |-> "/posts/hooks/index.md"] >>] >>

enUtils ==
    << [text |-> "Utils", items |-> <<
         [text |-> "Introduction", link |-> "/posts/utils/index.md"] >>] >>

\* The components section with the introduction's link repeated on the nested leaf.
enComponentsNestedDuplicate ==
    << [text |-> "Components", items |-> <<
         [text |-> "Introduction", link |-> "/posts/components/index.md"],
         [text |-> "Business Components", collapsed |-> FALSE, items |-> <<
            [text |-> "BookmarkBanner", link |-> "/posts/components/index.md"] >>] >>] >>

enComponents ==
    << [text |-> "Components", items |-> <<
         [text |-> "Introduction", link |-> "/posts/components/index.md"],
         [text |-> "Business Components", collapsed |-> FALSE, items |-> <<
            [text |-> "BookmarkBanner", link |-> "/posts/components/business/bookmark-banner.md"] >>] >>] >>

\* The mapping with a catch-all section for every page under /posts/.
enSidebarCatchAll ==
    ("/posts/" :> enStandard)
    @@ ("/posts/standard/" :> enStandard) @@ ("/posts/incidents/" :> enIncidents)
    @@ ("/posts/hooks/" :> enHooks) @@ ("/posts/utils/" :> enUtils)
    @@ ("/posts/components/" :> enComponents)

enSidebar ==
    ("/posts/standard/" :> enStandard) @@ ("/posts/incidents/" :> enIncidents)
    @@ ("/posts/hooks/" :> enHooks) @@ ("/posts/utils/" :> enUtils)
    @@ ("/posts/components/" :> enComponents)

zhStandard ==
    << [text |-> "zh: Standards", items |-> <<
         [text |-> "zh: Introduction", link |-> "/zh/posts/standard/index.md"],
         [text |-> "React", collapsed |-> FALSE, items |-> <<
            [text |-> "zh: React Coding Standards", link |-> "/zh/posts/standard/react/react-coding-standards.md"],
            [text |-> "zh: Avoid Writing Arrow Functions Directly in JSX", link |-> "/zh/posts/standard/react/avoid-arrow-function-in-jsx.md"],
            [text |-> "zh: useCreation Usage Guide", link |-> "/zh/posts/standard/react/usememo-usecreation-guide.md"],
            [text |-> "zh: Architecture 30 Principles", link |-> "/zh/posts/standard/react/react-architecture-principles.md"] >>],
         [text |-> "zh: Best Practices", items |-> <<
            [text |-> "zh: Git Standard", link |-> "/zh/posts/standard/best-practices/git-standard.md"],
            [text |-> "zh: Utility Function Declaration Standard", link |-> "/zh/posts/standard/best-practices/function-declaration.md"],
            [text |-> "zh: SVG File Optimization Standard", link |-> "/zh/posts/standard/best-practices/svg-optimization.md"],
            [text |-> "zh: Prohibition of Enum Standard", link |-> "/zh/posts/standard/best-practices/no-enum.md"],
            [text |-> "zh: Module Export Standard", link |-> "/zh/posts/standard/best-practices/module-export.md"] >>],
         [text |-> "GitHub", items |-> <<
            [text |-> "zh: PR Description Standard", link |-> "/zh/posts/standard/github/pr-description.md"] >>] >>] >>

zhIncidents ==
    << [text |-> "zh: Incidents", items |-> <<
         [text |-> "zh: Introduction", link |-> "/zh/posts/incidents/index.md"],
         [text |-> "zh: PayPal SDK Crash Incident", link |-> "/zh/posts/incidents/paypal-sdk-crash-2026-01-15.md"] >>] >>

zhHooks ==
    << [text |-> "Hooks", items |-> <<
         [text |-> "zh: Introduction", link |-> "/zh/posts/hooks/index.md"] >>] >>

\* The utils section with a link put on the group itself.
zhUtilsGroupWithLink ==
    << [text |-> "Utils", link |-> "/zh/posts/utils/index.md", items |-> <<
         [text |-> "zh: Introduction", link |-> "/zh/posts/utils/index.md"] >>] >>

zhUtils ==
    << [text |-> "Utils", items |-> <<
         [text |-> "zh: Introduction", link |-> "/zh/posts/utils/index.md"] >>] >>

zhSidebar ==
    ("/zh/posts/standard/" :> zhStandard) @@ ("/zh/posts/incidents/" :> zhIncidents)
    @@ ("/zh/posts/hooks/" :> zhHooks) @@ ("/zh/posts/utils/" :> zhUtils)

\* sidebar.ts: the mappings of the earlier configuration.
enHooksLegacy ==
    << [text |-> "Hooks", items |-> <<
         [text |-> "Introduction", link |-> "/posts/hooks/index.md"],
         [text |-> "State Management", link |-> "/posts/hooks/state.md"],
         [text |-> "Side Effects", link |-> "/posts/hooks/effect.md"],
         [text |-> "DOM Operations", link |-> "/posts/hooks/dom.md"],
         [text |-> "Others", link |-> "/posts/hooks/other.md"] >>] >>

enUtilsLegacy ==
    << [text |-> "Utils", items |-> <<
         [text |-> "Introduction", link |-> "/posts/utils/index.md"],
         [text |-> "String", link |-> "/posts/utils/string.md"],
         [text |-> "Object", link |-> "/posts/utils/object.md"],
         [text |-> "Array", link |-> "/posts/utils/array.md"],
         [text |-> "Time", link |-> "/posts/utils/time.md"],
         [text |-> "Function", link |-> "/posts/utils/function.md"],
         [text |-> "Type", link |-> "/posts/utils/type.md"],
         [text |-> "Others", link |-> "/posts/utils/other.md"] >>] >>

enSidebarLegacy ==
    ("/posts/hooks/" :> enHooksLegacy) @@ ("/posts/utils/" :> enUtilsLegacy)

zhHooksLegacy ==
    << [text |-> "Hooks", items |-> <<
         [text |-> "zh: Introduction", link |-> "/zh/posts/hooks/index.md"],
         [text |-> "zh: State Management", link |-> "/zh/posts/hooks/state.md"],
         [text |-> "zh: Side Effect Handling", link |-> "/zh/posts/hooks/effect.md"],
         [text |-> "zh: DOM Operations", link |-> "/zh/posts/hooks/dom.md"],
         [text |-> "zh: Others", link |-> "/zh/posts/hooks/other.md"] >>] >>

zhUtilsLegacy ==
    << [text |-> "Utils", items |-> <<
         [text |-> "zh: Introduction", link |-> "/zh/posts/utils/index.md"],
         [text |-> "zh: String Handling", link |-> "/zh/posts/utils/string.md"],
         [text |-> "zh: Object Operations", link |-> "/zh/posts/utils/object.md"],
         [text |-> "zh: Array Operations", link |-> "/zh/posts/utils/array.md"],
         [text |-> "zh: Time Handling", link |-> "/zh/posts/utils/time.md"],
         [text |-> "zh: Function Utilities", link |-> "/zh/posts/utils/function.md"],
         [text |-> "zh: Type Checks", link |-> "/zh/posts/utils/type.md"],
         [text |-> "zh: Other Utilities", link |-> "/zh/posts/utils/other.md"] >>] >>

zhSidebarLegacy ==
    ("/zh/posts/hooks/" :> zhHooksLegacy) @@ ("/zh/posts/utils/" :> zhUtilsLegacy)

-----------------------------------------------------------------------------
(* Documents.  A document is a path under the docs root, its front-matter  *)
(* (present or not, the title it declares, its layout, the link of the     *)
(* first hero action of a home page) and a body the model leaves out.      *)
(* The paths are written as the site addresses them ("/posts/..." is       *)
(* docs/posts/...).                                                        *)

\* A page with a front-matter block declaring `title`.
DocUntitled(p, t) == [path |-> p, fm |-> TRUE, title |-> "", layout |-> "doc", hero |-> ""]

Doc(p, t) == [path |-> p, fm |-> TRUE, title |-> t, layout |-> "doc", hero |-> ""]

\* A page that starts with its heading: no front-matter block.
Plain(p) == [path |-> p, fm |-> FALSE, title |-> "", layout |-> "doc", hero |-> ""]

\* A home page: front-matter with `layout: home`, a hero and features, no `title`.
Home(p, h) == [path |-> p, fm |-> TRUE, title |-> "", layout |-> "home", hero |-> h]

docs_index == Home("/index.md", "/posts/hooks/index.md")

docs_zh_index_legacy == Home("/zh/index.md", "/posts/hooks/index.md")

docs_zh_index == Home("/zh/index.md", "/zh/posts/hooks/index.md")

docs_index_legacy == Home("/index.md", "/posts/hooks/index.md")

components_business_bookmark_banner == Plain("/posts/components/business/bookmark-banner.md")

components_index == Plain("/posts/components/index.md")

hooks_dom == Plain("/posts/hooks/dom.md")

hooks_effect == Plain("/posts/hooks/effect.md")

hooks_state == Plain("/posts/hooks/state.md")

hooks_index == Plain("/posts/hooks/index.md")

incidents_index == Plain("/posts/incidents/index.md")

incidents_paypal == Plain("/posts/incidents/paypal-sdk-crash-2026-01-15.md")

standard_index == Plain("/posts/standard/index.md")

standard_module_export == Doc("/posts/standard/best-practices/module-export.md", "Module Export Standard")

standard_svg_optimization == Doc("/posts/standard/best-practices/svg-optimization.md", "SVG File Optimization Standard")

standard_git_standard == Doc("/posts/standard/best-practices/git-standard.md", "Git Standard")

standard_no_enum == Doc("/posts/standard/best-practices/no-enum.md", "Prohibition of Enum Standard")

standard_function_declaration == Doc("/posts/standard/best-practices/function-declaration.md", "Function Declaration Standard")

standard_avoid_arrow_function_in_jsx == Doc("/posts/standard/react/avoid-arrow-function-in-jsx.md", "Avoid Arrow Functions in JSX")

standard_react_architecture_principles == Doc("/posts/standard/react/react-architecture-principles.md", "React Architecture 30 Principles")

standard_usememo_usecreation_guide == Doc("/posts/standard/react/usememo-usecreation-guide.md", "useMemo and useCreation Usage Guide")

standard_react_coding_standards == Doc("/posts/standard/react/react-coding-standards.md", "React Coding Standards")

standard_pr_description == Doc("/posts/standard/github/pr-description.md", "PR Description Guidelines")

utils_time == Plain("/posts/utils/time.md")

utils_index == Plain("/posts/utils/index.md")

zh_hooks_index == Plain("/zh/posts/hooks/index.md")

zh_hooks_other == Plain("/zh/posts/hooks/other.md")

\* The same page filed with the hooks pages instead of under components/business/.
zh_bookmark_banner_misfiled == Plain("/zh/posts/hooks/bookmark-banner.md")

zh_components_business_bookmark_banner == Plain("/zh/posts/components/business/bookmark-banner.md")

zh_standard_function_declaration == Doc("/zh/posts/standard/best-practices/function-declaration.md", "zh: Utility Functions Use function Declarations Standard")

zh_standard_no_enum == Doc("/zh/posts/standard/best-practices/no-enum.md", "zh: Prohibition of Enum (enum) Standard")

zh_standard_module_export == Doc("/zh/posts/standard/best-practices/module-export.md", "zh: Module Export Standard")

zh_standard_git_standard == Doc("/zh/posts/standard/best-practices/git-standard.md", "zh: Git Standard")

zh_standard_svg_optimization == Doc("/zh/posts/standard/best-practices/svg-optimization.md", "zh: SVG File Optimization Standard")

zh_standard_react_coding_standards == Doc("/zh/posts/standard/react/react-coding-standards.md", "zh: React Coding Standards")

zh_standard_react_architecture_principles == Doc("/zh/posts/standard/react/react-architecture-principles.md", "zh: React Architecture 30 Principles")

zh_standard_avoid_arrow_function_in_jsx == Doc("/zh/posts/standard/react/avoid-arrow-function-in-jsx.md", "zh: React Performance Guide: Avoid Writing Arrow Functions Directly in JSX")

zh_standard_usememo_usecreation_guide == Doc("/zh/posts/standard/react/usememo-usecreation-guide.md", "zh: useMemo and useCreation Usage Guide")

zh_incidents_paypal == Plain("/zh/posts/incidents/paypal-sdk-crash-2026-01-15.md")

zh_utils_index == Plain("/zh/posts/utils/index.md")

zh_utils_object == Plain("/zh/posts/utils/object.md")

zh_utils_type == Plain("/zh/posts/utils/type.md")

zh_utils_array == Plain("/zh/posts/utils/array.md")

zh_utils_string == Plain("/zh/posts/utils/string.md")

zh_utils_function == Plain("/zh/posts/utils/function.md")

zh_utils_other == Plain("/zh/posts/utils/other.md")

\* The documents whose path is the name of their file under src/docs.
NamedDocs ==
    { components_business_bookmark_banner,
      hooks_dom,
      hooks_effect,
      hooks_state,
      incidents_index,
      incidents_paypal,
      standard_module_export,
      standard_svg_optimization,
      standard_avoid_arrow_function_in_jsx,
      standard_react_architecture_principles,
      standard_usememo_usecreation_guide,
      utils_time,
      zh_hooks_index,
      zh_hooks_other,
      zh_standard_function_declaration,
      zh_standard_no_enum,
      zh_standard_react_coding_standards,
      zh_utils_function,
      zh_utils_other }

\* The documents whose text is in the source under another name (a file of
\* unknown name, or the tail of a named file); each is placed at the path of
\* the sidebar entry or of the other locale's page that its text matches.
LocatedDocs ==
    { components_index,
      hooks_index,
      standard_index,
      standard_git_standard,
      standard_no_enum,
      standard_function_declaration,
      standard_react_coding_standards,
      standard_pr_description,
      utils_index,
      zh_components_business_bookmark_banner,
      zh_standard_module_export,
      zh_standard_git_standard,
      zh_standard_svg_optimization,
      zh_standard_react_architecture_principles,
      zh_standard_avoid_arrow_function_in_jsx,
      zh_standard_usememo_usecreation_guide,
      zh_incidents_paypal,
      zh_utils_index,
      zh_utils_object,
      zh_utils_type,
      zh_utils_array,
      zh_utils_string }

\* The documents the sidebars link to whose text is in no source file: taken
\* to exist, as "link targets an existing Document" says.
AbsentDocs ==
    { Plain(p) : p \in {
        "/zh/posts/standard/index.md",
        "/zh/posts/standard/github/pr-description.md",
        "/zh/posts/incidents/index.md",
        "/posts/hooks/other.md",
        "/zh/posts/hooks/state.md",
        "/zh/posts/hooks/effect.md",
        "/zh/posts/hooks/dom.md",
        "/posts/utils/string.md",
        "/posts/utils/object.md",
        "/posts/utils/array.md",
        "/posts/utils/function.md",
        "/posts/utils/type.md",
        "/posts/utils/other.md",
        "/zh/posts/utils/time.md" } }

\* The home pages of each version of the site.
HomeDocs(s) ==
    IF s = "current" THEN {docs_index, docs_zh_index}
    ELSE {docs_index_legacy, docs_zh_index_legacy}

Documents(s) == NamedDocs \cup LocatedDocs \cup AbsentDocs \cup HomeDocs(s)

DocPaths(s) == {d.path : d \in Documents(s)}

-----------------------------------------------------------------------------
(* Site configuration: defineConfig({ head, title, description, locales }). *)
(* "(c)" stands for the copyright sign of the source.                      *)

\* The root navigation bar with a misspelt section in the Standard link.
enNavMisspelt ==
    << [text |-> "Home", link |-> "/"],
       [text |-> "Standard", link |-> "/posts/standards/index.md"],
       [text |-> "Incidents", link |-> "/posts/incidents/index.md"],
       [text |-> "Hooks", link |-> "/posts/hooks/index.md"],
       [text |-> "Utils", link |-> "/posts/utils/index.md"] >>

enNav ==
    << [text |-> "Home", link |-> "/"],
       [text |-> "Standard", link |-> "/posts/standard/index.md"],
       [text |-> "Incidents", link |-> "/posts/incidents/index.md"],
       [text |-> "Hooks", link |-> "/posts/hooks/index.md"],
       [text |-> "Utils", link |-> "/posts/utils/index.md"] >>

\* The zh navigation bar without the entry added to the root one for incidents.
zhNavWithoutIncidents ==
    << [text |-> "zh: Home", link |-> "/zh/"],
       [text |-> "zh: Standards", link |-> "/zh/posts/standard/index.md"],
       [text |-> "Hooks", link |-> "/zh/posts/hooks/index.md"],
       [text |-> "Utils", link |-> "/zh/posts/utils/index.md"] >>

zhNav ==
    << [text |-> "zh: Home", link |-> "/zh/"],
       [text |-> "zh: Incidents", link |-> "/zh/posts/incidents/index.md"],
       [text |-> "zh: Standards", link |-> "/zh/posts/standard/index.md"],
       [text |-> "Hooks", link |-> "/zh/posts/hooks/index.md"],
       [text |-> "Utils", link |-> "/zh/posts/utils/index.md"] >>

enSearch ==
    [provider |-> "local",
     options |-> [translations |->
        [button |-> [buttonText |-> "Search", buttonAriaLabel |-> "Search documentation"],
         modal |-> [noResultsText |-> "No results for", resetButtonTitle |-> "Reset search",
                    footer |-> [selectText |-> "to select", navigateText |-> "to navigate",
                                closeText |-> "to close"]]]]]

zhSearch ==
    [provider |-> "local",
     options |-> [translations |->
        [button |-> [buttonText |-> "zh: Search", buttonAriaLabel |-> "zh: Search documentation"],
         modal |-> [noResultsText |-> "zh: No results found", resetButtonTitle |-> "zh: Clear query",
                    footer |-> [selectText |-> "zh: select", navigateText |-> "zh: switch",
                                closeText |-> "zh: close"]]]]]

socialLinks == << [icon |-> "github", link |-> "https://github.com/bosinc/fe-docs"] >>

enThemeConfig ==
    [logo |-> "/favicon.svg",
     lastUpdated |-> [text |-> "Last updated"],
     docFooter |-> [prev |-> "Previous", next |-> "Next"],
     outline |-> [label |-> "On this page", level |-> <<2, 3>>],
     nav |-> enNav,
     sidebar |-> enSidebar,
     search |-> enSearch,
     socialLinks |-> socialLinks,
     footer |-> [message |-> "Released under the MIT License.",
                 copyright |-> "Copyright (c) 2019-present Pear"]]

\* The zh theme with its footer left out.
zhThemeConfigNoFooter ==
    [logo |-> "/favicon.svg",
     lastUpdated |-> [text |-> "zh: Updated at"],
     docFooter |-> [prev |-> "zh: Previous page", next |-> "zh: Next page"],
     outline |-> [label |-> "zh: Outline", level |-> <<2, 3>>],
     nav |-> zhNav,
     sidebar |-> zhSidebar,
     search |-> zhSearch,
     socialLinks |-> socialLinks]

zhThemeConfig ==
    [logo |-> "/favicon.svg",
     lastUpdated |-> [text |-> "zh: Updated at"],
     docFooter |-> [prev |-> "zh: Previous page", next |-> "zh: Next page"],
     outline |-> [label |-> "zh: Outline", level |-> <<2, 3>>],
     nav |-> zhNav,
     sidebar |-> zhSidebar,
     search |-> zhSearch,
     socialLinks |-> socialLinks,
     footer |-> [message |-> "Released under the MIT License.",
                 copyright |-> "Copyright (c) 2019-present Pear"]]

config ==
    [head |-> << <<"link", [rel |-> "icon", href |-> "/favicon.svg", type |-> "image/svg+xml"]>> >>,
     title |-> "Pear/docs",
     description |-> "Modern JavaScript utility library",
     locales |->
        [root |-> [label |-> "English", lang |-> "en", title |-> "Pear Docs",
                   description |-> "Frontend Development Documentation",
                   themeConfig |-> enThemeConfig],
         zh   |-> [label |-> "zh: Chinese", lang |-> "zh-CN", title |-> "Pear Docs",
                   description |-> "zh: Frontend Development Documentation",
                   themeConfig |-> zhThemeConfig]]]

\* The earlier configuration: it imports the mappings of sidebar.ts.
enNavLegacy ==
    << [text |-> "Home", link |-> "/"],
       [text |-> "Hooks", link |-> "/posts/hooks/index.md"],
       [text |-> "Utils", link |-> "/posts/utils/index.md"] >>

zhNavLegacy ==
    << [text |-> "zh: Home", link |-> "/zh/"],
       [text |-> "Hooks", link |-> "/zh/posts/hooks/index.md"],
       [text |-> "Utils", link |-> "/zh/posts/utils/index.md"] >>

enThemeConfigLegacy ==
    [logo |-> "/favicon.svg",
     lastUpdated |-> [text |-> "Last updated"],
     docFooter |-> [prev |-> "Previous", next |-> "Next"],
     outline |-> [label |-> "On this page"],
     nav |-> enNavLegacy,
     sidebar |-> enSidebarLegacy,
     search |-> enSearch,
     socialLinks |-> socialLinks,
     footer |-> [message |-> "Released under the MIT License.",
                 copyright |-> "Copyright (c) 2019-present pear"]]

zhThemeConfigLegacy ==
    [logo |-> "/favicon.svg",
     lastUpdated |-> [text |-> "zh: Updated at"],
     docFooter |-> [prev |-> "zh: Previous page", next |-> "zh: Next page"],
     outline |-> [label |-> "zh: Outline"],
     nav |-> zhNavLegacy,
     sidebar |-> zhSidebarLegacy,
     search |-> zhSearch,
     socialLinks |-> socialLinks,
     footer |-> [message |-> "Released under the MIT License.",
                 copyright |-> "Copyright (c) 2019-present pear"]]

configLegacy ==
    [head |-> << <<"link", [rel |-> "icon", href |-> "/docs/favicon.svg", type |-> "image/svg+xml"]>> >>,
     title |-> "Pear/docs",
     description |-> "Modern JavaScript utility library",
     locales |->
        [root |-> [label |-> "English", lang |-> "en", title |-> "Pear/docs",
                   description |-> "Modern JavaScript utility library",
                   themeConfig |-> enThemeConfigLegacy],
         zh   |-> [label |-> "zh: Chinese", lang |-> "zh-CN", title |-> "Pear/docs",
                   description |-> "zh: Modern front-end utility library",
                   themeConfig |-> zhThemeConfigLegacy]]]

Sites == {"current", "legacy"}

Config(s) == IF s = "current" THEN config ELSE configLegacy

Locales(s) == DOMAIN Config(s).locales

ThemeConfig(s, l) == Config(s).locales[l].themeConfig

-----------------------------------------------------------------------------
(* How the generated site uses the configuration.                          *)

Range(f) == {f[i] : i \in DOMAIN f}

\* The address of a locale's home: the root locale is served at "/", a
\* locale declared under the key l at "/l/".
HomeOf(l) == IF l = "root" THEN "/" ELSE "/" \o l \o "/"

\* The locale an address belongs to: the non-root locale whose home is a
\* prefix of it, else the root locale.
LocaleOf(s, r) ==
    IF \E l \in Locales(s) \ {"root"} : StartsWith(r, HomeOf(l))
    THEN CHOOSE l \in Locales(s) \ {"root"} : StartsWith(r, HomeOf(l))
    ELSE "root"

\* The document an address names: a directory address names its index.md.
PageOf(r) == IF EndsWith(r, "/") THEN r \o "index.md" ELSE r

Exists(s, r) == PageOf(r) \in DocPaths(s)

\* The document served at an address (only where Exists).
DocAt(s, r) == CHOOSE d \in Documents(s) : d.path = PageOf(r)

\* The leaf entries (those carrying a link) at any depth of a tree.
RECURSIVE Leaves(_)
Leaves(entries) ==
    UNION { (IF "link" \in DOMAIN e THEN {e} ELSE {})
            \cup (IF "items" \in DOMAIN e THEN Leaves(e.items) ELSE {})
            : e \in Range(entries) }

\* The route prefixes of a sidebar mapping that match an address: the
\* sidebar shown on a page is the tree mapped at a prefix of its address.
MatchingPrefixes(sidebar, r) == {k \in DOMAIN sidebar : StartsWith(PageOf(r), k)}

-----------------------------------------------------------------------------
(* The visitor.                                                            *)

Init ==
    /\ site \in Sites
    /\ route = "/"
    /\ via = "open"
    /\ section = ""

\* Open the home page of a locale (the language menu lists every locale).
Open ==
    \E l \in Locales(site) :
        /\ route' = HomeOf(l)
        /\ via' = "open"
        /\ section' = ""
        /\ UNCHANGED site

\* Follow an entry of the navigation bar of the page's locale.
ClickNav ==
    LET nav == ThemeConfig(site, LocaleOf(site, route)).nav
    IN  \E i \in DOMAIN nav :
            /\ route' = nav[i].link
            /\ via' = "nav"
            /\ section' = ""
            /\ UNCHANGED site

\* Follow a leaf of the sidebar shown on the page.
ClickSidebar ==
    LET sidebar == ThemeConfig(site, LocaleOf(site, route)).sidebar
    IN  \E k \in MatchingPrefixes(sidebar, route) :
            \E e \in Leaves(sidebar[k]) :
                /\ route' = e.link
                /\ via' = "sidebar"
                /\ section' = k
                /\ UNCHANGED site

\* Follow the first hero action of a home page.
ClickHero ==
    /\ Exists(site, route)
    /\ DocAt(site, route).layout = "home"
    /\ route' = DocAt(site, route).hero
    /\ via' = "hero"
    /\ section' = ""
    /\ UNCHANGED site

\* Open a document of the site by its address.
EnterUrl ==
    \E d \in Documents(site) :
        /\ route' = d.path
        /\ via' = "url"
        /\ section' = ""
        /\ UNCHANGED site

Next == Open \/ ClickNav \/ ClickSidebar \/ ClickHero \/ EnterUrl

Spec == Init /\ [][Next]_vars

-----------------------------------------------------------------------------
(* The file-system layout: docs/posts/<topic>/... for the root locale and  *)
(* docs/<locale>/posts/<topic>/... for every other one.                    *)

PostsRoot(l) == (IF l = "root" THEN "" ELSE "/" \o l) \o "/posts/"

\* The topic directories of a locale, relative to its posts/ tree: every
\* directory below posts/ that holds a document, directly or further down.
TopicDirs(s, l) ==
    LET root == PostsRoot(l)
        dirs == UNION {AncestorDirs(d.path) : d \in Documents(s)}
    IN  { SubSeq(a, Len(root) + 1, Len(a)) :
            a \in {x \in dirs : StartsWith(x, root) /\ Len(x) > Len(root)} }

-----------------------------------------------------------------------------
(* Properties.                                                             *)

\* The sidebar mappings of the site: one per locale.
Sidebars(s) == {ThemeConfig(s, l).sidebar : l \in Locales(s)}

\* Every entry at any depth of a tree, groups and leaves alike.
RECURSIVE Entries(_)
Entries(entries) ==
    Range(entries)
    \cup UNION {Entries(e.items) : e \in {x \in Range(entries) : "items" \in DOMAIN x}}

\* Every `items` list of a tree, the top-level list included.
RECURSIVE ItemLists(_)
ItemLists(entries) ==
    {entries}
    \cup UNION {ItemLists(e.items) : e \in {x \in Range(entries) : "items" \in DOMAIN x}}

LeafLinks(list) == {i \in DOMAIN list : "link" \in DOMAIN list[i]}

C2_SiblingLinksDistinct ==
    \A sb \in Sidebars(site) : \A k \in DOMAIN sb : \A list \in ItemLists(sb[k]) :
        \A i, j \in LeafLinks(list) : i # j => list[i].link # list[j].link

\* The visitor followed a leaf of a sidebar one of whose lists holds several leaves.
C2_Witness ==
    /\ via = "sidebar"
    /\ \E sb \in Sidebars(site) :
          /\ section \in DOMAIN sb
          /\ \E list \in ItemLists(sb[section]) :
                /\ Cardinality(LeafLinks(list)) >= 2
                /\ \E i \in LeafLinks(list) : list[i].link = route

C4_TitleDeclaredUnlessHome ==
    \A d \in Documents(site) : (d.fm /\ d.layout # "home") => d.title # ""

\* C4 as stated: every document with a front-matter block declares a
\* non-empty `title`, the locale home pages included.
C4_TitleDeclared ==
    \A d \in Documents(site) : d.fm => d.title # ""

\* The visitor is on a page whose front-matter declares its title.
C4_Witness ==
    /\ Exists(site, route)
    /\ DocAt(site, route).fm
    /\ DocAt(site, route).layout = "doc"
    /\ DocAt(site, route).title = "Module Export Standard"

\* C7: every sidebar entry at every depth has a `text` and exactly one of
\* `link` (a leaf) and `items` (a group of sidebar entries).
C7_EntryShape ==
    \A sb \in Sidebars(site) : \A k \in DOMAIN sb : \A e \in Entries(sb[k]) :
        /\ "text" \in DOMAIN e
        /\ ("link" \in DOMAIN e) # ("items" \in DOMAIN e)

\* The visitor followed a leaf two groups down in the sidebar shown.
C7_Witness ==
    /\ via = "sidebar"
    /\ \E sb \in Sidebars(site) :
          /\ section \in DOMAIN sb
          /\ \E g \in Range(sb[section]) :
                /\ "items" \in DOMAIN g
                /\ \E h \in Range(g.items) :
                      /\ "items" \in DOMAIN h
                      /\ \E e \in Range(h.items) : "link" \in DOMAIN e /\ e.link = route

\* C8: the configuration declares the locales root and zh, and each of them
\* specifies a title, a description, `nav`, `sidebar`, `search.provider` and
\* `footer`.
C8_LocaleConfigComplete ==
    /\ Locales(site) = {"root", "zh"}
    /\ \A l \in Locales(site) :
          LET locale == Config(site).locales[l]
          IN  /\ {"title", "description", "themeConfig"} \subseteq DOMAIN locale
              /\ {"nav", "sidebar", "search", "footer"} \subseteq DOMAIN locale.themeConfig
              /\ "provider" \in DOMAIN locale.themeConfig.search

\* The visitor followed an entry of the zh navigation bar to a zh page.
C8_Witness ==
    /\ via = "nav"
    /\ LocaleOf(site, route) = "zh"
    /\ route # HomeOf("zh")

\* C10: in every sidebar mapping, every leaf link at any depth of the tree
\* mapped at a route prefix begins with that prefix; so following a sidebar
\* leaf never leaves the section.
C10_RoutePrefixContainment ==
    /\ \A sb \in Sidebars(site) : \A k \in DOMAIN sb : \A e \in Leaves(sb[k]) :
          StartsWith(e.link, k)
    /\ via = "sidebar" => StartsWith(route, section)

\* The visitor followed a nested leaf of the zh standard sidebar.
C10_Witness ==
    /\ via = "sidebar"
    /\ section = "/zh/posts/standard/"
    /\ route = "/zh/posts/standard/react/react-coding-standards.md"

\* The route prefixes of all the sidebar mappings of the site.
SidebarKeys(s) == UNION {DOMAIN sb : sb \in Sidebars(s)}

\* The sidebar mapping in use on the page at an address.
SidebarAt(s, r) == ThemeConfig(s, LocaleOf(s, r)).sidebar

\* C11: among the route prefixes of the site's sidebar mappings, both locales
\* together, none is a prefix of another; so at most one of them matches the
\* address of the page shown.
C11_SidebarSelectionUnambiguous ==
    /\ \A p, q \in SidebarKeys(site) : p # q => ~StartsWith(q, p)
    /\ Cardinality(MatchingPrefixes(SidebarAt(site, route), route)) <= 1

\* The visitor opened a page two directories below a section, and exactly
\* one route prefix matches it.
C11_Witness ==
    /\ via = "url"
    /\ route = "/posts/components/business/bookmark-banner.md"
    /\ MatchingPrefixes(SidebarAt(site, route), route) = {"/posts/components/"}

\* The home page of a locale.
HomeDocOf(s, l) == DocAt(s, HomeOf(l))

\* The site-internal links of a locale's artifacts: its navigation bar, the
\* route prefixes and leaf links of its sidebar, its home page's hero action.
LocaleLinks(s, l) ==
    LET theme == ThemeConfig(s, l)
    IN  {theme.nav[i].link : i \in DOMAIN theme.nav}
        \cup DOMAIN theme.sidebar
        \cup UNION {{e.link : e \in Leaves(theme.sidebar[k])} : k \in DOMAIN theme.sidebar}
        \cup {HomeDocOf(s, l).hero}

\* C12: every site-internal link of a zh artifact begins with "/zh/", and no
\* site-internal link of a root-locale artifact does.
C12_LocaleIsolation ==
    \A l \in Locales(site) : \A x \in LocaleLinks(site, l) :
        StartsWith(x, "/zh/") <=> (l = "zh")

\* The links of the leaves at any depth of a tree.
LinksOf(entries) == {e.link : e \in Leaves(entries)}

\* The links of a locale's navigation bar.
NavLinks(s, l) == {ThemeConfig(s, l).nav[i].link : i \in DOMAIN ThemeConfig(s, l).nav}

\* C13: zhSidebar is enSidebar with "/zh" prepended: its route prefixes are
\* those of enSidebar with "/zh" in front, and under each the leaf links are
\* those of the English tree with "/zh" in front.
C13_SidebarParity ==
    LET en == ThemeConfig(site, "root").sidebar
        zh == ThemeConfig(site, "zh").sidebar
    IN  /\ DOMAIN zh = {"/zh" \o k : k \in DOMAIN en}
        /\ \A k \in DOMAIN en :
              ("/zh" \o k) \in DOMAIN zh =>
                  LinksOf(zh["/zh" \o k]) = {"/zh" \o x : x \in LinksOf(en[k])}

\* C14: in each locale, every navigation-bar link other than the locale home
\* is P + "index.md" for a route prefix P of that locale's sidebar mapping; so
\* a page reached from the navigation bar shows a sidebar.
C14_NavLeadsIntoSection ==
    /\ \A l \in Locales(site) : \A x \in NavLinks(site, l) \ {HomeOf(l)} :
          \E k \in DOMAIN ThemeConfig(site, l).sidebar : x = k \o "index.md"
    /\ (via = "nav" /\ route \notin {HomeOf(l) : l \in Locales(site)})
          => MatchingPrefixes(SidebarAt(site, route), route) # {}

\* The visitor followed the navigation bar into the incidents section.
C14_Witness ==
    /\ via = "nav"
    /\ route = "/posts/incidents/index.md"
    /\ MatchingPrefixes(SidebarAt(site, route), route) = {"/posts/incidents/"}

\* C15: in each locale, every route prefix P of the sidebar mapping has a
\* navigation-bar entry whose link is P + "index.md".
C15_SectionsReachableFromNav ==
    \A l \in Locales(site) : \A k \in DOMAIN ThemeConfig(site, l).sidebar :
        (k \o "index.md") \in NavLinks(site, l)

\* C16: the navigation-bar links of the zh locale are exactly those of the
\* root locale with "/zh" prepended ("/" corresponding to "/zh/").
C16_NavParity ==
    NavLinks(site, "zh") = {"/zh" \o x : x \in NavLinks(site, "root")}

\* The visitor followed the zh navigation bar to the incidents section, which
\* the two bars list at different positions.
C16_Witness ==
    /\ via = "nav"
    /\ site = "current"
    /\ route = "/zh/posts/incidents/index.md"
    /\ "/posts/incidents/index.md" \in NavLinks(site, "root")

\* The links of the leaves of a tree, one per leaf entry, in document order.
RECURSIVE LeafSeq(_)
LeafSeq(entries) ==
    IF entries = <<>> THEN <<>>
    ELSE LET e == Head(entries)
         IN  (IF "link" \in DOMAIN e THEN <<e.link>> ELSE <<>>)
             \o (IF "items" \in DOMAIN e THEN LeafSeq(e.items) ELSE <<>>)
             \o LeafSeq(Tail(entries))

\* C17: across all the sections and nesting levels of one sidebar mapping, no
\* two leaf entries carry the same link.
C17_DocumentOncePerSidebar ==
    \A sb \in Sidebars(site) : \A k1, k2 \in DOMAIN sb :
        \A i \in DOMAIN LeafSeq(sb[k1]) : \A j \in DOMAIN LeafSeq(sb[k2]) :
            (k1 # k2 \/ i # j) => LeafSeq(sb[k1])[i] # LeafSeq(sb[k2])[j]

\* The visitor followed the nested leaf of the components sidebar, whose
\* leaves sit at two different levels.
C17_Witness ==
    /\ via = "sidebar"
    /\ section = "/posts/components/"
    /\ route = "/posts/components/business/bookmark-banner.md"
    /\ LeafSeq(SidebarAt(site, route)[section]) =
          <<"/posts/components/index.md", "/posts/components/business/bookmark-banner.md">>

\* The documents under a locale's posts/ tree.
PostsOf(s, l) == {d \in Documents(s) : StartsWith(d.path, PostsRoot(l))}

\* C18: every document under a locale's posts/ tree is the target of a leaf
\* link of the sidebar mapping the configuration uses for that locale.
C18_NoOrphanDocuments ==
    \A l \in Locales(site) : \A d \in PostsOf(site, l) :
        \E k \in DOMAIN ThemeConfig(site, l).sidebar :
            d.path \in LinksOf(ThemeConfig(site, l).sidebar[k])

====
